---- MODULE Spec2Model ----
(***************************************************************************)
(* GamblShield Discovery dashboard (src/App.tsx) and its discovery service *)
(* (performDiscovery, second half of src/components/ArchitectureDiagram.tsx)*)
(*                                                                         *)
(* The React component is modelled as a state machine: the useState cells  *)
(* are the variables, every event handler, timer callback, promise         *)
(* continuation and effect is one action.  Strings are sequences of        *)
(* one-character strings so that trim / toLowerCase / replace are computed.*)
(***************************************************************************)
EXTENDS Integers, Sequences, FiniteSets, TLC

VARIABLES
    sites,              \* useState<GamblingSite[]>      App.tsx:8
    logs,               \* useState<AgentLog[]>          App.tsx:9 (newest first)
    isSearching,        \* App.tsx:10
    isAnalyzing,        \* App.tsx:11
    isAutonomous,       \* App.tsx:12
    searchQuery,        \* App.tsx:13
    autoCycleCount,     \* App.tsx:15
    nextCycleCountdown, \* App.tsx:16
    pc,                 \* position of the one handleDiscovery invocation
    closure,            \* values that invocation captured when it started
    response,           \* what performDiscovery resolved with, until consumed
    effectDeps,         \* dependency values seen by the last effect run
    intervalTimer,      \* TRUE while a window.setInterval timer is set
    clock               \* number of answers the service has given (time)

vars == <<sites, logs, isSearching, isAnalyzing, isAutonomous, searchQuery,
          autoCycleCount, nextCycleCountdown, pc, closure, response,
          effectDeps, intervalTimer, clock>>

----------------------------------------------------------------------------
(* Bounds of the model *)

\* answers of the external service that carry data, per run
MaxCalls == 2
\* records in one answer of the external service
MaxBatch == 2
\* newest entries of the log stream that the model keeps
LogWindow == 2

(* Program constants *)

\* addLog: .slice(0, 50)
LogCap == 50
\* startCountdown: setNextCycleCountdown(15)
CycleDelay == 15
\* performDiscovery: Math.floor(Math.random() * 5) + 1
SourceCountRange == 5
\* performDiscovery: sources.slice(0, 3)
SourceSlice == 3

----------------------------------------------------------------------------
(* Strings *)

Min(a, b) == IF a < b THEN a ELSE b

Take(s, n) == SubSeq(s, 1, Min(n, Len(s)))

UpperCase == <<"A","B","C","D","E","F","G","H","I","J","K","L","M",
               "N","O","P","Q","R","S","T","U","V","W","X","Y","Z">>
LowerCase == <<"a","b","c","d","e","f","g","h","i","j","k","l","m",
               "n","o","p","q","r","s","t","u","v","w","x","y","z">>
Digits == <<"0","1","2","3","4","5","6","7","8","9">>

Range(s) == {s[i] : i \in DOMAIN s}

\* characters outside ASCII, held by their code point: the Kelvin sign,
\* whose lower case is the ASCII k, and E with acute, whose lower case is e
\* with acute
UpperCaseOther == <<"U+212A", "U+00C9">>
LowerCaseOther == <<"k", "U+00E9">>

\* String.prototype.toLowerCase without the mapping to lower case
ToLowerCharIdentity(c) == c

\* String.prototype.toLowerCase, one character
ToLowerChar(c) ==
    LET upper == UpperCase \o UpperCaseOther
        lower == LowerCase \o LowerCaseOther
    IN  IF \E i \in DOMAIN upper : upper[i] = c
        THEN lower[CHOOSE i \in DOMAIN upper : upper[i] = c]
        ELSE c

ToLowerCase(s) == [i \in DOMAIN s |-> ToLowerChar(s[i])]

\* .replace(/[^a-z0-9]/g, '')
StripNonAlnum(s) == SelectSeq(s, LAMBDA c : c \in Range(LowerCase) \cup Range(Digits))

\* site.normalized_name.toLowerCase().replace(/[^a-z0-9]/g, '')
Normalize(s) == StripNonAlnum(ToLowerCase(s))

WhiteSpace == {" "}

RECURSIVE TrimStart(_)
TrimStart(s) ==
    IF s = <<>> THEN s
    ELSE IF Head(s) \in WhiteSpace THEN TrimStart(Tail(s)) ELSE s

RECURSIVE TrimEnd(_)
TrimEnd(s) ==
    IF s = <<>> THEN s
    ELSE IF s[Len(s)] \in WhiteSpace THEN TrimEnd(SubSeq(s, 1, Len(s) - 1)) ELSE s

\* String.prototype.trim
Trim(s) == TrimEnd(TrimStart(s))

\* site_name.split('.')[0]
RECURSIVE SplitFirst(_)
SplitFirst(s) ==
    IF s = <<>> \/ Head(s) = "." THEN <<>>
    ELSE <<Head(s)>> \o SplitFirst(Tail(s))

----------------------------------------------------------------------------
(* types.ts *)

ACTIVE == "active"
FLAGGED == "flagged"
FALSE_POSITIVE == "false_positive"

SiteStatus == {ACTIVE, FLAGGED, FALSE_POSITIVE}

----------------------------------------------------------------------------
(* Inputs: what the external model and Math.random can give *)

\* entries of extracted_sites in the service's JSON answer
ExtractedSites ==
    { [site_name |-> <<"A", ".", "c">>, normalized_name |-> <<"a">>,
       confidence_score |-> 9],
      [site_name |-> <<"a", "-", "v">>, normalized_name |-> <<"A", "-">>,
       confidence_score |-> 5],
      [site_name |-> <<"b">>, normalized_name |-> <<"b">>,
       confidence_score |-> 9] }

\* what the two Math.random() calls of one record can give: the id string
\* Math.random().toString(36).substr(2, 9), and Math.floor(Math.random() * 5)
RandomDraws == { [id |-> "id1", floor |-> 0],
                 [id |-> "id2", floor |-> SourceCountRange - 1] }

\* the smallest inputs with which a call returns a record
ProbeSites == { [site_name |-> <<"A", ".", "c">>, normalized_name |-> <<"a">>,
                 confidence_score |-> 9] }
ProbeDraws == { [id |-> "id1", floor |-> 0] }

\* groundingChunks web uris of an answer: none, or more than are kept
SourceLists == { <<>>, <<"u1", "u2", "u3", "u4">> }

\* the answers that came with grounding
GroundedSources == {s \in SourceLists : Len(s) > 0}

\* values typed into the Seed Query Focus input
Queries == { <<" ">>, <<"s">> }

\* the initial seed query, 'situs slot gacor terbaru 2024'
InitialQuery == <<"s">>

----------------------------------------------------------------------------
(* services/geminiService: performDiscovery, the part after the answer *)

\* one element of result.extracted_sites.map(...)
NewSite(site, draw, sources, timestamp) ==
    [ id               |-> draw.id,
      site_name        |-> site.site_name,
      normalized_name  |-> Normalize(site.normalized_name),
      first_seen       |-> timestamp,
      last_seen        |-> timestamp,
      confidence_score |-> site.confidence_score,
      status           |-> ACTIVE,
      source_count     |-> draw.floor + 1,
      sources          |-> Take(sources, SourceSlice) ]

\* the value performDiscovery resolves with
PerformDiscovery(extracted, draws, sources, timestamp) ==
    [ sites   |-> [i \in DOMAIN extracted |->
                      NewSite(extracted[i], draws[i], sources, timestamp)],
      sources |-> sources ]

----------------------------------------------------------------------------
(* App.tsx: pure parts *)

\* addLog: [entry, ...prev].slice(0, 50).  An entry is held as its type (its
\* message and wall-clock time are display text), and the model keeps the
\* newest LogWindow entries of the stream.
AddLog(prev, type) == Take(<<type>> \o prev, Min(LogCap, LogWindow))

\* the keys of new Map(entries) in iteration order: a Map iterates in the
\* order in which its keys were first set
MapKeys(entries) ==
    LET firsts == SelectSeq([i \in DOMAIN entries |-> i],
                            LAMBDA i : \A g \in 1..(i - 1) : entries[g][1] # entries[i][1])
    IN  [n \in DOMAIN firsts |-> entries[firsts[n]][1]]

\* MapGet of a map that keeps the value a key was first set to
MapGetFirstSet(entries, k) ==
    entries[CHOOSE j \in DOMAIN entries :
               /\ entries[j][1] = k
               /\ \A h \in 1..(j - 1) : entries[h][1] # k][2]

\* map.get(k) of new Map(entries): the value the key was last set to
MapGet(entries, k) ==
    entries[CHOOSE j \in DOMAIN entries :
               /\ entries[j][1] = k
               /\ \A h \in (j + 1)..Len(entries) : entries[h][1] # k][2]

\* new Map(entries), held as the sequence of its [key, value] in iteration
\* order
NewMap(entries) ==
    LET keys == MapKeys(entries)
    IN  [n \in DOMAIN keys |-> [key |-> keys[n], value |-> MapGet(entries, keys[n])]]

\* Array.from(map.values())
MapValues(m) == [i \in DOMAIN m |-> m[i].value]

\* Combined with the registry first, so that a later answer overwrites it
CombinedPrevFirst(newSites, prev) == prev \o newSites

\* Combined of the answer alone: the registry is replaced, not merged
CombinedBatchOnly(newSites, prev) == newSites

\* const combined = [...newSites, ...prev]
Combined(newSites, prev) == newSites \o prev

\* Unique without the Map: the concatenation as it is
UniqueNoDedup(combined) == combined

\* const unique = Array.from(new Map(combined.map(item => [item.normalized_name, item])).values())
Unique(combined) ==
    MapValues(NewMap([i \in DOMAIN combined |-> <<combined[i].normalized_name, combined[i]>>]))

\* MergeSites counting against the answer instead of the registry
MergeSitesCountsBatch(prev, newSites) ==
    LET combined == newSites \o prev
        unique == MapValues(NewMap([i \in DOMAIN combined |->
                      <<combined[i].normalized_name, combined[i]>>]))
    IN  [unique |-> unique, newCount |-> Len(combined) - Len(prev)]

\* the setSites updater of handleDiscovery: the new registry and newCount
MergeSites(prev, newSites) ==
    LET unique == Unique(Combined(newSites, prev))
    IN  [unique |-> unique, newCount |-> Len(unique) - Len(prev)]

\* ToggleStatusOf that only ever flags
ToggleStatusOfOneWay(prev, id) ==
    [i \in DOMAIN prev |->
        IF prev[i].id = id THEN [prev[i] EXCEPT !.status = FALSE_POSITIVE] ELSE prev[i]]

\* the setSites updater of toggleStatus
ToggleStatusOf(prev, id) ==
    [i \in DOMAIN prev |->
        IF prev[i].id = id
        THEN [prev[i] EXCEPT !.status =
                 IF prev[i].status = ACTIVE THEN FALSE_POSITIVE ELSE ACTIVE]
        ELSE prev[i]]

\* const knownPatterns = sites.map(s => s.normalized_name)
KnownPatterns(ss) == [i \in DOMAIN ss |-> ss[i].normalized_name]

\* the four query strategies of the autonomous effect
Strategies(site_name) ==
    << <<"l","i","n","k"," ","a","l","t","e","r","n","a","t","i","f"," ">> \o site_name,
       <<"s","i","t","u","s"," ","s","e","r","u","p","a"," ">> \o site_name,
       <<"d","a","f","t","a","r"," ","a","g","e","n"," ">> \o SplitFirst(site_name),
       <<"p","r","o","m","o"," ","t","e","r","b","a","r","u"," ">> \o site_name >>

\* const queryToUse = customQuery || searchQuery  ('' and undefined are falsy)
QueryToUse(customQuery, query) == IF customQuery = <<>> THEN query ELSE customQuery

----------------------------------------------------------------------------
(* App.tsx: the component *)

\* no handleDiscovery invocation is in flight
NoClosure == [isAutonomous |-> FALSE, knownPatterns |-> <<>>]

\* the dependency array of the autonomous effect; the countdown effect's
\* array, [isAutonomous, nextCycleCountdown], is its first and third entry
Deps == <<isAutonomous, isSearching, nextCycleCountdown>>

\* no answer has been given
NoResponse == [sites |-> <<>>, sources |-> <<>>]

\* a promise of performDiscovery has settled and handleDiscovery's
\* continuation is the next thing to run
Settled == pc \in {"resolved", "rejected"}

\* every effect of the last render has run and no promise continuation is
\* due: the browser is free to deliver the next event
Quiescent == Deps = effectDeps /\ ~Settled

Init ==
    /\ sites = <<>>
    /\ logs = <<>>
    /\ isSearching = FALSE
    /\ isAnalyzing = FALSE
    /\ isAutonomous = FALSE
    /\ searchQuery = InitialQuery
    /\ autoCycleCount = 0
    /\ nextCycleCountdown = 0
    /\ pc = "idle"
    /\ closure = NoClosure
    /\ response = NoResponse
    /\ effectDeps = <<FALSE, FALSE, 0>>
    /\ intervalTimer = FALSE
    /\ clock = 0

\* handleDiscovery up to its first await (App.tsx:28-42), run on top of the
\* log stream prevLogs.  queryToUse is only handed to the service and shown
\* in a message; the invocation keeps isAutonomous and knownPatterns.
HandleDiscovery(customQuery, prevLogs) ==
    IF Trim(QueryToUse(customQuery, searchQuery)) = <<>> \/ isSearching
    THEN /\ logs' = prevLogs
         /\ UNCHANGED <<isSearching, isAnalyzing, pc, closure>>
    ELSE LET knownPatterns == KnownPatterns(sites)
             analyzing == AddLog(prevLogs, "info")
         IN  /\ isSearching' = TRUE
             /\ isAnalyzing' = TRUE
             /\ logs' = IF Len(knownPatterns) > 0
                        THEN AddLog(analyzing, "success")
                        ELSE analyzing
             /\ pc' = "analyzing"
             /\ closure' = [isAutonomous |-> isAutonomous,
                            knownPatterns |-> knownPatterns]

\* the Seed Query Focus input, rendered while autonomous mode is off
SetSearchQuery ==
    /\ Quiescent
    /\ ~isAutonomous
    /\ \E q \in Queries : searchQuery' = q
    /\ UNCHANGED <<sites, logs, isSearching, isAnalyzing, isAutonomous,
                   autoCycleCount, nextCycleCountdown, pc, closure, response, effectDeps,
                   intervalTimer, clock>>

\* the Manual Discovery button, rendered while autonomous mode is off and
\* disabled while isSearching
ManualDiscovery ==
    /\ Quiescent
    /\ ~isAutonomous
    /\ ~isSearching
    /\ HandleDiscovery(<<>>, logs)
    /\ UNCHANGED <<sites, isAutonomous, searchQuery, autoCycleCount,
                   nextCycleCountdown, response, effectDeps, intervalTimer, clock>>

\* the Auto Mode switch
ToggleAutonomous ==
    /\ Quiescent
    /\ isAutonomous' = ~isAutonomous
    /\ logs' = IF ~isAutonomous
               THEN AddLog(logs, "warning")
               ELSE AddLog(logs, "info")
    /\ UNCHANGED <<sites, isSearching, isAnalyzing, searchQuery, autoCycleCount,
                   nextCycleCountdown, pc, closure, response, effectDeps, intervalTimer,
                   clock>>

\* the action button of a registry row
ToggleStatus ==
    /\ Quiescent
    /\ \E i \in DOMAIN sites : sites' = ToggleStatusOf(sites, sites[i].id)
    /\ UNCHANGED <<logs, isSearching, isAnalyzing, isAutonomous, searchQuery,
                   autoCycleCount, nextCycleCountdown, pc, closure, response, effectDeps,
                   intervalTimer, clock>>

\* handleDiscovery after the one-second wait (App.tsx:42-49): the call to
\* performDiscovery is issued
AnalyzeTimeout ==
    /\ Quiescent
    /\ pc = "analyzing"
    /\ isAnalyzing' = FALSE
    /\ logs' = AddLog(logs, "info")
    /\ pc' = "calling"
    /\ UNCHANGED <<sites, isSearching, isAutonomous, searchQuery, autoCycleCount,
                   nextCycleCountdown, closure, response, effectDeps, intervalTimer,
                   clock>>

\* performDiscovery resolves (ArchitectureDiagram.tsx:98-121); the answer's
\* records are drawn from Sites, the random numbers from Draws and the
\* grounding uris from Sources
Resolve(Sites, Draws, Sources) ==
    /\ Quiescent
    /\ pc = "calling"
    /\ clock < MaxCalls
    /\ \E n \in 0..MaxBatch, sources \in Sources :
       \E extracted \in [1..n -> Sites], draws \in [1..n -> Draws] :
          response' = PerformDiscovery(extracted, draws, sources, clock + 1)
    /\ pc' = "resolved"
    /\ clock' = clock + 1
    /\ UNCHANGED <<sites, logs, isSearching, isAnalyzing, isAutonomous, searchQuery,
                   autoCycleCount, nextCycleCountdown, closure, effectDeps,
                   intervalTimer>>

\* an answer of the smallest kind, with or without grounding
DiscoveryResolve == Resolve(ProbeSites, ProbeDraws, SourceLists)

\* a grounded answer of any kind: several records, keys that differ in case
\* and symbols, ids and source counts that differ
DiscoveryResolveAny == Resolve(ExtractedSites, RandomDraws, GroundedSources)

\* performDiscovery rejects: the network, the service, or a malformed answer
DiscoveryReject ==
    /\ Quiescent
    /\ pc = "calling"
    /\ pc' = "rejected"
    /\ UNCHANGED <<sites, logs, isSearching, isAnalyzing, isAutonomous, searchQuery,
                   autoCycleCount, nextCycleCountdown, closure, response, effectDeps,
                   intervalTimer, clock>>

\* the rest of the try block and the finally block of handleDiscovery
\* (App.tsx:49-73, 78-80)
HandleDiscoveryTry ==
    /\ pc = "resolved"
    /\ LET newSites == response.sites
           indexed == IF Len(response.sources) > 0
                      THEN AddLog(logs, "success")
                      ELSE logs
           merged == MergeSites(sites, newSites)
           learned == IF merged.newCount > 0
                      THEN AddLog(indexed, "success")
                      ELSE AddLog(indexed, "warning")
       IN  /\ sites' = merged.unique
           /\ logs' = AddLog(learned, "success")
    /\ IF closure.isAutonomous
       THEN /\ autoCycleCount' = autoCycleCount + 1
            /\ nextCycleCountdown' = CycleDelay
       ELSE UNCHANGED <<autoCycleCount, nextCycleCountdown>>
    /\ isSearching' = FALSE
    /\ pc' = "idle"
    /\ closure' = NoClosure
    /\ response' = NoResponse
    /\ UNCHANGED <<isAnalyzing, isAutonomous, searchQuery, effectDeps, intervalTimer,
                   clock>>

\* HandleDiscoveryCatch without the finally block
HandleDiscoveryCatchNoFinally ==
    /\ pc = "rejected"
    /\ logs' = AddLog(logs, "error")
    /\ nextCycleCountdown' = IF closure.isAutonomous THEN CycleDelay
                             ELSE nextCycleCountdown
    /\ pc' = "idle"
    /\ closure' = NoClosure
    /\ UNCHANGED <<sites, isSearching, isAnalyzing, isAutonomous, searchQuery,
                   autoCycleCount, response, effectDeps, intervalTimer, clock>>

\* the catch and finally blocks of handleDiscovery (App.tsx:74-80)
HandleDiscoveryCatch ==
    /\ pc = "rejected"
    /\ logs' = AddLog(logs, "error")
    /\ nextCycleCountdown' = IF closure.isAutonomous THEN CycleDelay
                             ELSE nextCycleCountdown
    /\ isSearching' = FALSE
    /\ pc' = "idle"
    /\ closure' = NoClosure
    /\ UNCHANGED <<sites, isAnalyzing, isAutonomous, searchQuery, autoCycleCount,
                   response, effectDeps, intervalTimer, clock>>

\* the queries the autonomous effect can evolve (App.tsx:91-101)
NextQueries ==
    IF Len(sites) > 0
    THEN {Strategies(sites[i].site_name)[j] : i \in DOMAIN sites, j \in 1..4}
    ELSE {searchQuery}

\* RunEffects whose countdown effect returns no cleanup: an interval, once
\* set, is never cleared
RunEffectsNoCleanup ==
    /\ ~Settled
    /\ Deps # effectDeps
    /\ effectDeps' = Deps
    /\ IF isAutonomous /\ ~isSearching /\ nextCycleCountdown = 0
       THEN \E nextQuery \in NextQueries :
               HandleDiscovery(nextQuery, AddLog(logs, "info"))
       ELSE UNCHANGED <<logs, isSearching, isAnalyzing, pc, closure>>
    /\ response' = response
    /\ intervalTimer' =
          IF <<isAutonomous, nextCycleCountdown>> # <<effectDeps[1], effectDeps[3]>>
          THEN intervalTimer \/ (isAutonomous /\ nextCycleCountdown > 0)
          ELSE intervalTimer
    /\ UNCHANGED <<sites, isAutonomous, searchQuery, autoCycleCount,
                   nextCycleCountdown, clock>>

\* RunEffects whose autonomous effect lists [isAutonomous, isSearching] as
\* its dependencies: it does not run again when only the countdown changed
RunEffectsMissingDep ==
    /\ ~Settled
    /\ Deps # effectDeps
    /\ effectDeps' = Deps
    /\ IF /\ <<isAutonomous, isSearching>> # <<effectDeps[1], effectDeps[2]>>
          /\ isAutonomous /\ ~isSearching /\ nextCycleCountdown = 0
       THEN \E nextQuery \in NextQueries :
               HandleDiscovery(nextQuery, AddLog(logs, "info"))
       ELSE UNCHANGED <<logs, isSearching, isAnalyzing, pc, closure>>
    /\ response' = response
    /\ intervalTimer' =
          IF <<isAutonomous, nextCycleCountdown>> # <<effectDeps[1], effectDeps[3]>>
          THEN isAutonomous /\ nextCycleCountdown > 0
          ELSE intervalTimer
    /\ UNCHANGED <<sites, isAutonomous, searchQuery, autoCycleCount,
                   nextCycleCountdown, clock>>

\* RunEffects whose autonomous trigger does not look at isSearching, neither
\* in the effect nor in the handler it calls
RunEffectsUnguarded ==
    /\ ~Settled
    /\ Deps # effectDeps
    /\ effectDeps' = Deps
    /\ IF isAutonomous /\ nextCycleCountdown = 0
       THEN \E nextQuery \in NextQueries :
               /\ isSearching' = TRUE
               /\ isAnalyzing' = TRUE
               /\ logs' = AddLog(AddLog(logs, "info"), "info")
               /\ pc' = "analyzing"
               /\ closure' = [isAutonomous |-> isAutonomous,
                              knownPatterns |-> KnownPatterns(sites)]
       ELSE UNCHANGED <<logs, isSearching, isAnalyzing, pc, closure>>
    /\ response' = response
    /\ intervalTimer' =
          IF <<isAutonomous, nextCycleCountdown>> # <<effectDeps[1], effectDeps[3]>>
          THEN isAutonomous /\ nextCycleCountdown > 0
          ELSE intervalTimer
    /\ UNCHANGED <<sites, isAutonomous, searchQuery, autoCycleCount,
                   nextCycleCountdown, clock>>

\* RunEffects whose countdown effect sets its interval whenever autonomous
\* mode is on, also with the countdown at 0
RunEffectsTimerAtZero ==
    /\ ~Settled
    /\ Deps # effectDeps
    /\ effectDeps' = Deps
    /\ IF isAutonomous /\ ~isSearching /\ nextCycleCountdown = 0
       THEN \E nextQuery \in NextQueries :
               HandleDiscovery(nextQuery, AddLog(logs, "info"))
       ELSE UNCHANGED <<logs, isSearching, isAnalyzing, pc, closure>>
    /\ response' = response
    /\ intervalTimer' =
          IF <<isAutonomous, nextCycleCountdown>> # <<effectDeps[1], effectDeps[3]>>
          THEN isAutonomous
          ELSE intervalTimer
    /\ UNCHANGED <<sites, isAutonomous, searchQuery, autoCycleCount,
                   nextCycleCountdown, clock>>

\* the effects of a render whose dependencies changed: the autonomous effect
\* (App.tsx:88-106), then the countdown effect with its cleanup (109-116)
RunEffects ==
    /\ ~Settled
    /\ Deps # effectDeps
    /\ effectDeps' = Deps
    /\ IF isAutonomous /\ ~isSearching /\ nextCycleCountdown = 0
       THEN \E nextQuery \in NextQueries :
               HandleDiscovery(nextQuery, AddLog(logs, "info"))
       ELSE UNCHANGED <<logs, isSearching, isAnalyzing, pc, closure>>
    /\ response' = response
    /\ intervalTimer' =
          IF <<isAutonomous, nextCycleCountdown>> # <<effectDeps[1], effectDeps[3]>>
          THEN isAutonomous /\ nextCycleCountdown > 0
          ELSE intervalTimer
    /\ UNCHANGED <<sites, isAutonomous, searchQuery, autoCycleCount,
                   nextCycleCountdown, clock>>

\* the setInterval callback of the countdown effect (App.tsx:111-113)
Tick ==
    /\ Quiescent
    /\ intervalTimer
    /\ nextCycleCountdown' = nextCycleCountdown - 1
    /\ UNCHANGED <<sites, logs, isSearching, isAnalyzing, isAutonomous, searchQuery,
                   autoCycleCount, pc, closure, response, effectDeps, intervalTimer, clock>>

Next ==
    \/ SetSearchQuery
    \/ ManualDiscovery
    \/ ToggleAutonomous
    \/ ToggleStatus
    \/ AnalyzeTimeout
    \/ DiscoveryResolve
    \/ DiscoveryReject
    \/ HandleDiscoveryTry
    \/ HandleDiscoveryCatch
    \/ RunEffects
    \/ Tick

\* the whole component, the service answering with the smallest answers
Spec == Init /\ [][Next]_vars

\* React runs the effects of every render, the browser fires a timer that
\* is set and runs the continuation of a settled promise, and every call to
\* the service is answered or fails
Fairness ==
    /\ WF_vars(RunEffects)
    /\ WF_vars(Tick)
    /\ WF_vars(AnalyzeTimeout)
    /\ WF_vars(HandleDiscoveryTry)
    /\ WF_vars(HandleDiscoveryCatch)
    /\ WF_vars(DiscoveryResolve \/ DiscoveryReject)

LiveSpec == Init /\ [][Next]_vars /\ Fairness

\* the component with autonomous mode left off, the service answering with
\* any answer: every sequence of merges and status toggles on the registry
NextRegistry ==
    \/ SetSearchQuery
    \/ ManualDiscovery
    \/ ToggleStatus
    \/ AnalyzeTimeout
    \/ DiscoveryResolveAny
    \/ DiscoveryReject
    \/ HandleDiscoveryTry
    \/ HandleDiscoveryCatch
    \/ RunEffects

RegistrySpec == Init /\ [][NextRegistry]_vars

----------------------------------------------------------------------------
(* Properties of the registry *)

Keys(ss) == {ss[i].normalized_name : i \in DOMAIN ss}

\* C1: in every reachable state no two records of the registry have the
\* same normalized_name
C1_UniqueNormalizedNames ==
    \A i, j \in DOMAIN sites :
        i # j => sites[i].normalized_name # sites[j].normalized_name

\* two merges and a status toggle have built a registry of two records
C1_Witness ==
    /\ pc = "idle"
    /\ clock = 2
    /\ Len(sites) = 2
    /\ sites[1].first_seen # sites[2].first_seen
    /\ \E i \in DOMAIN sites : sites[i].status = FALSE_POSITIVE

\* C2: when an answer holds a record whose normalized_name is already in
\* the registry, the merge leaves the registry's record for that key as it
\* was (every field), and it is the only record of that key afterwards
C2_MergeKeepsExisting ==
    [][pc = "resolved" =>
         \A i \in DOMAIN sites :
            sites[i].normalized_name \in Keys(response.sites) =>
               /\ \E k \in DOMAIN sites' : sites'[k] = sites[i]
               /\ \A k \in DOMAIN sites' :
                     sites'[k].normalized_name = sites[i].normalized_name
                        => sites'[k] = sites[i]
      ]_vars

\* a record of the first answer, flagged by the operator, stands in front of
\* a record of the second answer: the second answer held its key too, since
\* a merge puts the keys of the answer first
C2_Witness ==
    /\ pc = "idle"
    /\ Len(sites) = 2
    /\ sites[1].first_seen = 1
    /\ sites[1].status = FALSE_POSITIVE
    /\ sites[2].first_seen = 2

\* the first record of the answer with the normalized_name of its j-th
FirstInBatch(newSites, j) ==
    newSites[CHOOSE f \in DOMAIN newSites :
                /\ newSites[f].normalized_name = newSites[j].normalized_name
                /\ \A g \in 1..(f - 1) :
                      newSites[g].normalized_name # newSites[j].normalized_name]

\* C3: when an answer holds several records of one normalized_name that is
\* not in the registry, the registry's record for it after the merge is the
\* first of them
C3_MergeKeepsFirstInBatch ==
    [][pc = "resolved" =>
         \A j \in DOMAIN response.sites :
            response.sites[j].normalized_name \notin Keys(sites) =>
               \A k \in DOMAIN sites' :
                  sites'[k].normalized_name = response.sites[j].normalized_name
                     => sites'[k] = FirstInBatch(response.sites, j)
      ]_vars

\* C4: merging the answer a second time changes nothing and counts nothing
C4_MergeIdempotent ==
    pc = "resolved" =>
        LET once == MergeSites(sites, response.sites)
            twice == MergeSites(once.unique, response.sites)
        IN  /\ twice.unique = once.unique
            /\ twice.newCount = 0

\* an answer with a key the registry holds and a key it does not
C4_Witness ==
    /\ pc = "resolved"
    /\ Keys(response.sites) \cap Keys(sites) # {}
    /\ Keys(response.sites) \ Keys(sites) # {}

Flip(status) == IF status = ACTIVE THEN FALSE_POSITIVE ELSE ACTIVE

\* C5: a status is ACTIVE or FALSE_POSITIVE in every reachable state; two
\* toggles of one id give the registry back; and a step that changes the
\* registry without merging flips the status of the records of one id and
\* leaves every other field, every other record, the order and the length
C5_ToggleFlips ==
    /\ [](\A i \in DOMAIN sites : sites[i].status \in {ACTIVE, FALSE_POSITIVE})
    /\ [](\A i \in DOMAIN sites :
             ToggleStatusOf(ToggleStatusOf(sites, sites[i].id), sites[i].id) = sites)
    /\ [][(sites' # sites /\ pc # "resolved") =>
             \E id \in {sites[i].id : i \in DOMAIN sites} :
                /\ DOMAIN sites' = DOMAIN sites
                /\ \A i \in DOMAIN sites :
                      sites'[i] = IF sites[i].id = id
                                  THEN [sites[i] EXCEPT !.status = Flip(@)]
                                  ELSE sites[i]
       ]_vars

\* one record flagged, another of a different id left active
C5_Witness ==
    /\ Len(sites) = 2
    /\ sites[1].id # sites[2].id
    /\ sites[1].status = FALSE_POSITIVE
    /\ sites[2].status = ACTIVE

----------------------------------------------------------------------------
(* Properties of the discovery loop *)

\* C6: a failed call is caught: the catch leaves the registry as it was,
\* puts one entry of type 'error' at the head of the log stream, and clears
\* isSearching; isSearching is never set while no discovery is in progress
C6_FailureIsCaught ==
    /\ [](pc = "idle" => ~isSearching)
    /\ [][pc = "rejected" =>
             /\ sites' = sites
             /\ logs' # <<>>
             /\ Head(logs') = "error"
             /\ Len(logs') \in {Len(logs), Len(logs) + 1}
             /\ \A i \in 2..Len(logs') : logs'[i] = logs[i - 1]
             /\ ~isSearching'
             /\ pc' = "idle"
       ]_vars

\* the last thing logged is an error, over a registry that holds records,
\* and a discovery can start again
C6_Witness ==
    /\ pc = "idle"
    /\ ~isSearching
    /\ sites # <<>>
    /\ logs # <<>>
    /\ Head(logs) = "error"

\* the autonomous effect, not the operator, starts a discovery
AutomaticStart == pc = "idle" /\ pc' = "analyzing" /\ effectDeps' # effectDeps

\* C7: a call that fails while autonomous mode is on sets the countdown to
\* 15 as it finishes, however it was started and whatever was toggled while
\* it was in flight; and no automatic discovery starts before the countdown
\* is 0
C7_FailureStartsCountdown ==
    [][/\ (pc = "rejected" /\ isAutonomous) => nextCycleCountdown' = CycleDelay
       /\ AutomaticStart => nextCycleCountdown = 0
      ]_vars

\* C9: a discovery that succeeds while autonomous mode is on adds one to
\* autoCycleCount and sets the countdown to 15 as it clears isSearching; a
\* failed one, and one that completes while autonomous mode is off, leave
\* the counter; the counter never decreases
C9_CycleCountedOnce ==
    [][/\ (pc = "resolved" /\ isAutonomous) =>
             /\ autoCycleCount' = autoCycleCount + 1
             /\ nextCycleCountdown' = CycleDelay
             /\ ~isSearching'
       /\ (pc = "resolved" /\ ~isAutonomous) => autoCycleCount' = autoCycleCount
       /\ pc = "rejected" => autoCycleCount' = autoCycleCount
       /\ autoCycleCount' >= autoCycleCount
      ]_vars

\* C10: while autonomous mode is off no discovery starts automatically and
\* the countdown is not decremented; toggling the mode leaves a discovery in
\* flight as it is, and the answer, when it comes, is merged: every key of
\* the answer is in the registry afterwards
C10_OnlyTheFlagCancels ==
    [][/\ ~isAutonomous =>
             /\ ~AutomaticStart
             /\ nextCycleCountdown' >= nextCycleCountdown
       /\ isAutonomous' # isAutonomous =>
             /\ pc' = pc
             /\ closure' = closure
             /\ response' = response
       /\ pc = "resolved" =>
             /\ pc' = "idle"
             /\ Keys(response.sites) \subseteq Keys(sites')
      ]_vars

\* the one discovery that has succeeded was started by the autonomous
\* effect, the mode was switched off before it completed (nothing was logged
\* after its last entry), its records are in the registry and the countdown
\* it set stands still
C10_Witness ==
    /\ ~isAutonomous
    /\ pc = "idle"
    /\ Quiescent
    /\ clock = 1
    /\ autoCycleCount = 1
    /\ nextCycleCountdown = CycleDelay
    /\ sites # <<>>
    /\ logs # <<>>
    /\ Head(logs) = "success"

\* handleDiscovery issues its call to performDiscovery
DiscoveryCallStarted == pc = "analyzing" /\ pc' = "calling"

\* the autonomous effect has something to search for: a record to evolve a
\* query from, or a seed query that is not blank
SeedUsable == Len(sites) > 0 \/ Trim(searchQuery) # <<>>

\* C8 as stated: if autonomous mode is on and left on, calls are started
\* again and again, whatever the registry and the seed query
C8_AutonomousLoops ==
    <>[]isAutonomous => []<><<DiscoveryCallStarted>>_vars

\* C8 amended: if autonomous mode is on and left on, and the registry holds
\* a record or the seed query is not blank, calls are started again and again
C8_AutonomousLoopsWithSeed ==
    <>[](isAutonomous /\ SeedUsable) => []<><<DiscoveryCallStarted>>_vars

\* a cycle has completed, its countdown has run out, and the call of the
\* next cycle, started by the autonomous effect, is in flight
C8_Witness ==
    /\ isAutonomous
    /\ pc = "calling"
    /\ closure.isAutonomous
    /\ autoCycleCount >= 1

----------------------------------------------------------------------------
(* Properties of the dedup key *)

Alnum == Range(LowerCase) \cup Range(Digits)

\* characters of the names the external model can supply
NameChars == {"A", "a", "0", "-", ".", "U+212A", "U+00C9", "U+00E9"}

\* the characters that are symbols: neither a letter nor a digit
Symbols == {"-", "."}

\* names of at most two characters
RawNames ==
    {<<>>} \cup {<<c>> : c \in NameChars}
           \cup {<<c, d>> : c \in NameChars, d \in NameChars}

\* a letter and its other case (U+212A is an upper case of k)
SameLetter(c, d) ==
    \/ c = d
    \/ \E u \in DOMAIN UpperCase : {c, d} \subseteq {UpperCase[u], LowerCase[u]}
    \/ {c, d} \subseteq {"U+212A", "K", "k"}
    \/ {c, d} = {"U+00C9", "U+00E9"}

\* two names differ only in letter case or in symbols
SameUpToCaseAndSymbols(a, b) ==
    LET la == SelectSeq(a, LAMBDA c : c \notin Symbols)
        lb == SelectSeq(b, LAMBDA c : c \notin Symbols)
    IN  /\ Len(la) = Len(lb)
        /\ \A i \in DOMAIN la : SameLetter(la[i], lb[i])

\* C11: every record performDiscovery returns and every record of the
\* registry has a normalized_name of characters a-z and 0-9 only;
\* normalizing twice is normalizing once; names that differ only in letter
\* case or in symbols normalize to one key; and the registry holds at most
\* one record for the names the external model supplied that differ only so.
\* What is said of Normalize alone, over RawNames, is said in the states
\* before the first discovery.
C11_KeyIsNormalized ==
    /\ \A i \in DOMAIN sites : Range(sites[i].normalized_name) \subseteq Alnum
    /\ \A i \in DOMAIN response.sites :
          Range(response.sites[i].normalized_name) \subseteq Alnum
    /\ (sites = <<>> /\ logs = <<>>) =>
          /\ \A a \in RawNames :
                /\ Range(Normalize(a)) \subseteq Alnum
                /\ Normalize(Normalize(a)) = Normalize(a)
          /\ \A a, b \in RawNames :
                SameUpToCaseAndSymbols(a, b) => Normalize(a) = Normalize(b)
    /\ \A e1, e2 \in ExtractedSites :
          SameUpToCaseAndSymbols(e1.normalized_name, e2.normalized_name) =>
             Cardinality({i \in DOMAIN sites :
                 sites[i].normalized_name \in {Normalize(e1.normalized_name),
                                              Normalize(e2.normalized_name)}}) <= 1

\* an answer holds two records whose supplied names differed in case and in
\* a symbol, under one key, and the registry holds a record of that key
C11_Witness ==
    /\ pc = "resolved"
    /\ Len(response.sites) = 2
    /\ response.sites[1].site_name # response.sites[2].site_name
    /\ response.sites[1].normalized_name = response.sites[2].normalized_name
    /\ Len(sites) = 1
    /\ sites[1].normalized_name = response.sites[1].normalized_name

----------------------------------------------------------------------------
(* Properties of the triggers *)

\* the body of handleDiscovery is entered: it passes its guard
HandlerStarted ==
    /\ pc' = "analyzing"
    /\ isSearching'
    /\ (pc # "analyzing" \/ closure' # closure)

\* C12: at most one discovery is in flight: isSearching is set exactly
\* while a discovery is in progress, the body of handleDiscovery is entered
\* only when none is, whoever triggers it, and a call to performDiscovery
\* is issued only by the discovery in progress, after its one-second wait
C12_OneCallInFlight ==
    /\ [](isSearching <=> pc # "idle")
    /\ [][HandlerStarted => (pc = "idle" /\ ~isSearching)]_vars
    /\ [][(pc' = "calling" /\ pc # "calling") => pc = "analyzing"]_vars
    /\ [][(pc = "calling" /\ pc' # "calling") => pc' \in {"resolved", "rejected"}]_vars

\* a call started by the operator is in flight, autonomous mode has been
\* switched on meanwhile with the countdown at 0, and the autonomous effect
\* has run
C12_Witness ==
    /\ pc = "calling"
    /\ ~closure.isAutonomous
    /\ isAutonomous
    /\ nextCycleCountdown = 0
    /\ effectDeps = Deps

----------------------------------------------------------------------------
(* Properties of the review decisions *)

\* C13: a review decision is not lost: in every step every key of the
\* registry stays in it, and the status of its record changes only when the
\* operator toggles a record of its id; so a toggle made while a discovery
\* is in flight survives the merge of its answer, and a FALSE_POSITIVE stays
\* through every later merge, also of an answer that holds its key
C13_NoLostDecision ==
    [][\A i \in DOMAIN sites :
          /\ \E k \in DOMAIN sites' :
                sites'[k].normalized_name = sites[i].normalized_name
          /\ \/ \A k \in DOMAIN sites' :
                   sites'[k].normalized_name = sites[i].normalized_name
                      => sites'[k].status = sites[i].status
             \/ /\ pc' = pc
                /\ sites' = ToggleStatusOf(sites, sites[i].id)
      ]_vars

\* the second answer has come while the record of the first, which the
\* operator marked a false positive, is in the registry; the answer holds a
\* record of its key and another id, still ACTIVE, to be merged
C13_Witness ==
    /\ pc = "resolved"
    /\ clock = 2
    /\ \E i \in DOMAIN sites, j \in DOMAIN response.sites :
          /\ sites[i].status = FALSE_POSITIVE
          /\ sites[i].first_seen = 1
          /\ response.sites[j].normalized_name = sites[i].normalized_name
          /\ response.sites[j].id # sites[i].id
          /\ response.sites[j].status = ACTIVE

----------------------------------------------------------------------------
(* Properties of the countdown *)

\* C14: the countdown is between 0 and 15 in every reachable state; it goes
\* down only by 1, only while autonomous mode is on and it is above 0, by
\* the tick of the one interval set; once the effects have run an interval
\* is set exactly when autonomous mode is on and the countdown is above 0;
\* and the autonomous effect starts a discovery only when autonomous mode is
\* on, none is in flight and the countdown is 0
C14_CountdownBounded ==
    /\ [](nextCycleCountdown \in 0..CycleDelay)
    /\ [](Deps = effectDeps =>
             (intervalTimer <=> (isAutonomous /\ nextCycleCountdown > 0)))
    /\ [][nextCycleCountdown' < nextCycleCountdown =>
             /\ nextCycleCountdown' = nextCycleCountdown - 1
             /\ isAutonomous
             /\ nextCycleCountdown > 0
             /\ intervalTimer
       ]_vars
    /\ [][(HandlerStarted /\ effectDeps' # effectDeps) =>
             /\ isAutonomous
             /\ ~isSearching
             /\ pc = "idle"
             /\ nextCycleCountdown = 0
       ]_vars

\* the countdown of the first cycle has been decremented down to 1 and its
\* interval is set
C14_Witness ==
    /\ isAutonomous
    /\ pc = "idle"
    /\ autoCycleCount = 1
    /\ nextCycleCountdown = 1
    /\ intervalTimer
    /\ Deps = effectDeps

----------------------------------------------------------------------------
(* Properties of the growth of the registry *)

\* C15: no step removes a normalized_name from the registry; a merge makes
\* the keys of the registry the union of what they were and the keys of the
\* answer; newCount, which is the growth of the registry, is the number of
\* keys of the answer that the registry did not hold, is never negative,
\* and is 0 exactly when the merge logs its warning instead of its success
C15_RegistryOnlyGrows ==
    /\ [][Keys(sites) \subseteq Keys(sites')]_vars
    /\ [][pc = "resolved" =>
             LET newKeys == Keys(response.sites) \ Keys(sites)
                 newCount == MergeSites(sites, response.sites).newCount
                 written == Range(Take(logs', 2))
             IN  /\ Keys(sites') = Keys(sites) \cup Keys(response.sites)
                 /\ newCount = Cardinality(newKeys)
                 /\ newCount = Len(sites') - Len(sites)
                 /\ newCount >= 0
                 /\ newCount = 0 <=> "warning" \in written
                 /\ newCount > 0 <=> written = {"success"}
       ]_vars

\* the first answer taught two keys and the second none: the registry holds
\* two records of the first answer, and under the entry that closes the
\* second cycle stands the warning
C15_Witness ==
    /\ pc = "idle"
    /\ clock = 2
    /\ Len(sites) = 2
    /\ \A i \in DOMAIN sites : sites[i].first_seen = 1
    /\ Len(logs) >= 2
    /\ logs[1] = "success"
    /\ logs[2] = "warning"

====
